---- MODULE Spec2Model ----
(***************************************************************************)
(* Model of pybnn/utils/data_utils.py: the Data class (the dataset         *)
(* partitioner), its two generators _iterate_dataset_configurations and    *)
(* _generate_evaluation_subsets, and the helper exclude_indices.           *)
(*                                                                         *)
(* Arrays are records [shape, a]: shape is the numpy shape and a the       *)
(* nested, 0-based contents.  Optional values are None == <<>> or          *)
(* Some(v) == <<v>>.  A numpy RandomState is a position in a cyclic        *)
(* stream of raw draws; the stream is arbitrary but fixed, so that equal   *)
(* seeds give equal draws.                                                 *)
(***************************************************************************)
EXTENDS Integers, Sequences, FiniteSets, TLC

\* ------------------------------------------------------------ bounds ----
MaxN == 3          \* configurations in a dataset: 1..MaxN
MaxI == 2          \* evaluations per configuration: 1..MaxI
MaxD == 2          \* feature dimensionality Dx: 1..MaxD
MaxMult == 2       \* train_set_multiplier: 0..MaxMult
StreamLen == 3     \* number of states of the random generator
RngMax == 3        \* raw draws are in 0..RngMax-1
MaxUpdates == 2    \* update calls per object
MaxNext == 2       \* advances of a generator obtained by a direct call
FracDen == 2       \* train_frac ranges over k/FracDen, k in 0..FracDen
MaxModels == 3     \* legacy MCBatchNorm objects constructed in one run
MaxOverride == 2   \* distinct values a caller overrides a key with
MaxLayers == 2     \* hidden layers of a network: 1..MaxLayers
MaxConfs == 3      \* num_confs of a model: 0..MaxConfs
MaxLoss == 2       \* validation losses: 0..MaxLoss
MaxOuter == 2      \* passes over the training data in _predict_mc: 0..MaxOuter
MaxBatches == 2    \* minibatches of one pass: 0..MaxBatches
MaxUnits == 3      \* units of a layer: 1..MaxUnits

\* ---------------------------------------------------------- optionals ---
None == <<>>
Some(v) == <<v>>
IsNone(o) == o = <<>>
Val(o) == o[1]

\* ------------------------------------------------------------- arrays ---
Size(ind) == Cardinality(DOMAIN ind)
Range(f) == {f[k] : k \in DOMAIN f}

\* np.arange(n)
arange(n) == [k \in 0..(n - 1) |-> k]

\* the benchmark data as read from disk: X, y and meta of the given shapes,
\* every entry distinct (tag 0 for X, 1 for y, 2 for meta)
ndarray(tag, n, i, d) ==
  [shape |-> <<n, i, d>>,
   a |-> [c \in 0..(n - 1) |-> [e \in 0..(i - 1) |-> [k \in 0..(d - 1) |->
            1000 * tag + 100 * c + 10 * e + k + 1]]]]

\* A[ind, :, :]; the caller checks IndexOK first
IndexOK(A, ind) == \A k \in DOMAIN ind : ind[k] >= 0 /\ ind[k] < A.shape[1]
take(A, ind) ==
  [shape |-> <<Size(ind), A.shape[2], A.shape[3]>>,
   a |-> [k \in DOMAIN ind |-> A.a[ind[k]]]]

\* faulty variant: row k is gathered from the next configuration
take_along_axis_shifted(A, ch) ==
  [shape |-> <<A.shape[1], A.shape[3]>>,
   a |-> [k \in 0..(A.shape[1] - 1) |->
            A.a[(k + 1) % A.shape[1]][ch[(k + 1) % A.shape[1]]]]]
\* np.take_along_axis(A, choices, axis=1).reshape((N, D))
take_along_axis(A, ch) ==
  [shape |-> <<A.shape[1], A.shape[3]>>,
   a |-> [k \in 0..(A.shape[1] - 1) |-> A.a[k][ch[k]]]]

\* all_idx[req_idx]: the entries of all_idx whose mask is True, in order
MaskSelect(all_idx, req_idx) ==
  LET sel == {j \in DOMAIN req_idx : req_idx[j]}
  IN [k \in 0..(Cardinality(sel) - 1) |->
        all_idx[CHOOSE j \in sel : Cardinality({j2 \in sel : j2 < j}) = k]]

\* faulty variant: req_idx[indices] = False is missing
exclude_indices_keep_all(npoints, indices) ==
  MaskSelect(arange(npoints), [j \in 0..(npoints - 1) |-> TRUE])
\* exclude_indices: the indices of 0..npoints-1 not in indices, ascending
exclude_indices(npoints, indices) ==
  LET all_idx == arange(npoints)
      req_idx == [j \in 0..(npoints - 1) |-> j \notin Range(indices)]
  IN MaskSelect(all_idx, req_idx)

\* ------------------------------------------------------------- errors ---
NoErr == <<>>
Raised(type) == <<type>>
ErrType(e) == IF e = <<>> THEN "" ELSE e[1]

VARIABLES
  insts,         \* the Data objects of this run
  stream,        \* the raw draws of the random generator, by generator state
  args,          \* constructor arguments of each object
  pc,            \* "new" | "ready" | "failed" (the constructor raised)
  err,           \* the exception raised by the last call on the object
  X_full, y_full, meta_full,
  rng,           \* self.rng
  _conf_splits, _eval_splits,
  train_X, train_Y, train_meta,
  test_X, test_Y, test_meta,
  train_ind, test_ind,   \* index vectors of the split the arrays come from
  choices,               \* evaluation indices of the last training resample
  nupdates,              \* update calls made so far
  gen,           \* a generator obtained by calling the split routine directly
  gen_out,       \* what that generator yielded last
  gen_err,       \* the exception of the last call on it, or of the request
  gen_nexts      \* how many times it was advanced

VARIABLES
  evgen,               \* a generator obtained by calling the static method
                       \* _generate_evaluation_subsets directly, with its rng
  DEFAULT_MLP_PARAMS,  \* the module-level dict of pybnn/mcbatchnorm.py
  models,              \* the legacy MCBatchNorm objects, in construction order
  net,                 \* a models.MCBatchNorm object and its generated network
  fitrun,              \* a run of models.MCBatchNorm.fit, with globalConfig.tblog
  mcrun                \* a run of models.MCBatchNorm._predict_mc

\* the state outside class Data
Aux == <<evgen, DEFAULT_MLP_PARAMS, models, net, fitrun, mcrun>>

vars == <<insts, stream, args, pc, err, X_full, y_full, meta_full, rng,
          _conf_splits, _eval_splits, train_X, train_Y, train_meta,
          test_X, test_Y, test_meta, train_ind, test_ind, choices, nupdates,
          gen, gen_out, gen_err, gen_nexts,
          evgen, DEFAULT_MLP_PARAMS, models, net, fitrun, mcrun>>

\* ------------------------------------------------- np.random.RandomState ---
\* faulty variant: the seed is ignored
RandomState_unseeded(seed, entropy) == entropy % StreamLen
\* RandomState(seed): an int seed fixes the state, None takes it from the
\* operating system's entropy
RandomState(seed, entropy) ==
  IF IsNone(seed) THEN entropy % StreamLen ELSE Val(seed) % StreamLen

\* one raw draw reduced to 0..n-1, and the state after k draws
draw(pos, n) == stream[pos] % n
advance(pos, k) == (pos + k) % StreamLen

\* rng.randint(low, high): one draw
randint(pos, low, high) ==
  [v |-> low + draw(pos, high - low), pos |-> advance(pos, 1)]

\* rng.shuffle(x): for i in reversed(range(1, n)): swap x[i], x[j], j in 0..i
RECURSIVE shuffle(_, _, _)
shuffle(x, i, pos) ==
  IF i < 1 THEN [x |-> x, pos |-> pos]
  ELSE LET j == draw(pos, i + 1)
       IN shuffle([x EXCEPT ![i] = x[j], ![j] = x[i]], i - 1, advance(pos, 1))

\* rng.permutation(n)
permutation(n, pos) == shuffle(arange(n), n - 1, pos)

\* rng.choice(range(n), size=size, replace=False), for 0 <= size <= n
choice_without_replacement(n, size, pos) ==
  LET perm == permutation(n, pos)
  IN [idx |-> [k \in 0..(size - 1) |-> perm.x[k]], pos |-> perm.pos]

\* rng.choice(list(range(i)), size=(M, 1, 1), replace=True)
choice_with_replacement(i, M, pos) ==
  [idx |-> [k \in 0..(M - 1) |-> draw(advance(pos, k), i)],
   pos |-> advance(pos, M)]

\* --------------------------------------- _iterate_dataset_configurations ---
\* upper end of the seed drawn for the split generator
SeedHigh == 1000000000

\* floor(train_frac * N), train_frac = <<num, den>>
floor_frac(frac, n) == (frac[1] * n) \div frac[2]

\* Calling the generator function runs none of its body: the arguments are
\* bound and a generator object in state "created" is returned.
_iterate_dataset_configurations(train_frac, train_size, rng_arg, return_indices) ==
  [gi_state |-> "created", train_frac |-> train_frac, train_size |-> train_size,
   given_size |-> train_size,
   rng_arg |-> rng_arg, rs |-> None, return_indices |-> return_indices]

\* faulty variant: a given train_size wins over train_frac
effective_train_size_prefers_size(train_frac, train_size, n) ==
  IF ~IsNone(train_size) THEN Val(train_size)
  ELSE floor_frac(Val(train_frac), n)
\* lines 250-251: train_frac, when given, replaces train_size
effective_train_size(train_frac, train_size, n) ==
  IF ~IsNone(train_frac) THEN floor_frac(Val(train_frac), n)
  ELSE Val(train_size)

\* the 3-tuple of arrays indexed by the same index vector
take3(ds, ind) == <<take(ds[1], ind), take(ds[2], ind), take(ds[3], ind)>>
IndexOK3(ds, ind) == IndexOK(ds[1], ind) /\ IndexOK(ds[2], ind) /\ IndexOK(ds[3], ind)

\* one pass of the while loop of the generator, from the state rs of its
\* random generator, with training size ts
conf_loop(g, full, rs, ts) ==
  LET n == full[1].shape[1]
      closed == [g EXCEPT !.gi_state = "closed"]
  IN IF ts > n \/ ts < 0
     THEN [err |-> Raised("ValueError"), g |-> closed, out |-> None]
     ELSE LET c == choice_without_replacement(n, ts, rs)
              train_idx == c.idx
              test_idx == exclude_indices(n, train_idx)
          IN IF ~(IndexOK3(full, train_idx) /\ IndexOK3(full, test_idx))
             THEN [err |-> Raised("IndexError"), g |-> closed, out |-> None]
             ELSE [err |-> NoErr,
                   g |-> [g EXCEPT !.gi_state = "suspended", !.rs = Some(c.pos),
                                   !.train_size = Some(ts)],
                   out |-> Some([train_set |-> take3(full, train_idx),
                                 test_set |-> take3(full, test_idx),
                                 train_ind |-> train_idx,
                                 test_ind |-> test_idx,
                                 indices |-> IF g.return_indices
                                             THEN Some(<<train_idx, test_idx>>)
                                             ELSE None])]

\* next(g) on a split generator over the object's full dataset
conf_next(g, full, entropy) ==
  IF g.gi_state = "closed"
  THEN [err |-> Raised("StopIteration"), g |-> g, out |-> None]
  ELSE IF g.gi_state = "created"
  THEN LET rs == RandomState(g.rng_arg, entropy)
       IN IF IsNone(g.train_frac) /\ IsNone(g.train_size)
          THEN [err |-> Raised("RuntimeError"),
                g |-> [g EXCEPT !.gi_state = "closed"], out |-> None]
          ELSE conf_loop(g, full, rs,
                         effective_train_size(g.train_frac, g.train_size,
                                              full[1].shape[1]))
  ELSE conf_loop(g, full, Val(g.rs), Val(g.train_size))

\* ------------------------------------------ _generate_evaluation_subsets ---
\* The generator object; rng is self.rng in every call the class makes.
_generate_evaluation_subsets(dataset) ==
  [gi_state |-> "created", dataset |-> dataset]

\* faulty variant: the outputs are gathered with other choices
gather3_own_choices(ds, ch) ==
  <<take_along_axis(ds[1], ch),
    take_along_axis(ds[2], [k \in DOMAIN ch |-> (ch[k] + 1) % ds[2].shape[2]]),
    take_along_axis(ds[3], ch)>>
\* the three gathers of one yield, all with the same choices
gather3(ds, ch) ==
  <<take_along_axis(ds[1], ch), take_along_axis(ds[2], ch), take_along_axis(ds[3], ch)>>

\* faulty variant: the choices are drawn before the shapes are compared
assertion_failure_after_draw(e, X, other, pos) ==
  [err |-> <<"AssertionError", X.shape, other.shape>>,
   e |-> [e EXCEPT !.gi_state = "closed"],
   out |-> None, pos |-> advance(pos, X.shape[1]),
   choices |-> [k \in 0..(X.shape[1] - 1) |-> 0]]
\* lines 283-288: a failing assert ends the generator with a message holding
\* the shape of X and the shape of the array that disagrees with it
assertion_failure(e, X, other, pos) ==
  [err |-> <<"AssertionError", X.shape, other.shape>>,
   e |-> [e EXCEPT !.gi_state = "closed"],
   out |-> None, pos |-> pos, choices |-> <<>>]

\* next(e) on an evaluation-subset generator drawing from the state pos
eval_next(e, pos) ==
  LET X == e.dataset[1]
      y == e.dataset[2]
      meta == e.dataset[3]
      N == X.shape[1]
      i == X.shape[2]
  IN IF e.gi_state = "closed"
     THEN [err |-> Raised("StopIteration"), e |-> e, out |-> None,
           pos |-> pos, choices |-> <<>>]
     ELSE IF e.gi_state = "created" /\ ~(N = y.shape[1] /\ i = y.shape[2])
     THEN assertion_failure(e, X, y, pos)
     ELSE IF e.gi_state = "created" /\ ~(N = meta.shape[1] /\ i = meta.shape[2])
     THEN assertion_failure(e, X, meta, pos)
     ELSE LET c == choice_with_replacement(i, N, pos)
          IN [err |-> NoErr, e |-> [e EXCEPT !.gi_state = "suspended"],
              out |-> Some(gather3(e.dataset, c.idx)),
              pos |-> c.pos, choices |-> c.idx]

\* ------------------------------------------------------------ class Data ---
\* the attributes of object p, as a record
Obj(p) ==
  [pc |-> pc[p], err |-> err[p],
   X_full |-> X_full[p], y_full |-> y_full[p], meta_full |-> meta_full[p],
   rng |-> rng[p], _conf_splits |-> _conf_splits[p], _eval_splits |-> _eval_splits[p],
   train_X |-> train_X[p], train_Y |-> train_Y[p], train_meta |-> train_meta[p],
   test_X |-> test_X[p], test_Y |-> test_Y[p], test_meta |-> test_meta[p],
   train_ind |-> train_ind[p], test_ind |-> test_ind[p], choices |-> choices[p],
   nupdates |-> nupdates[p]]

\* object p takes the attributes of the record o; the other objects keep theirs
SetObj(p, o) ==
  /\ pc' = [pc EXCEPT ![p] = o.pc]
  /\ err' = [err EXCEPT ![p] = o.err]
  /\ X_full' = [X_full EXCEPT ![p] = o.X_full]
  /\ y_full' = [y_full EXCEPT ![p] = o.y_full]
  /\ meta_full' = [meta_full EXCEPT ![p] = o.meta_full]
  /\ rng' = [rng EXCEPT ![p] = o.rng]
  /\ _conf_splits' = [_conf_splits EXCEPT ![p] = o._conf_splits]
  /\ _eval_splits' = [_eval_splits EXCEPT ![p] = o._eval_splits]
  /\ train_X' = [train_X EXCEPT ![p] = o.train_X]
  /\ train_Y' = [train_Y EXCEPT ![p] = o.train_Y]
  /\ train_meta' = [train_meta EXCEPT ![p] = o.train_meta]
  /\ test_X' = [test_X EXCEPT ![p] = o.test_X]
  /\ test_Y' = [test_Y EXCEPT ![p] = o.test_Y]
  /\ test_meta' = [test_meta EXCEPT ![p] = o.test_meta]
  /\ train_ind' = [train_ind EXCEPT ![p] = o.train_ind]
  /\ test_ind' = [test_ind EXCEPT ![p] = o.test_ind]
  /\ choices' = [choices EXCEPT ![p] = o.choices]
  /\ nupdates' = [nupdates EXCEPT ![p] = o.nupdates]

\* an object no attribute of which is set
Blank ==
  [pc |-> "new", err |-> NoErr,
   X_full |-> None, y_full |-> None, meta_full |-> None,
   rng |-> None, _conf_splits |-> None, _eval_splits |-> None,
   train_X |-> None, train_Y |-> None, train_meta |-> None,
   test_X |-> None, test_Y |-> None, test_meta |-> None,
   train_ind |-> <<>>, test_ind |-> <<>>, choices |-> <<>>,
   nupdates |-> 0]

\* the constructor raised: no object is produced
Failed(e) == [Blank EXCEPT !.pc = "failed", !.err = e]

full_of(o) == <<Val(o.X_full), Val(o.y_full), Val(o.meta_full)>>

\* faulty variant: self._conf_splits = None is missing
init_static_test_keep_generator(o, r) ==
  LET split == Val(r.out)
  IN [o EXCEPT !._conf_splits = Some(r.g),
               !.train_X = None, !.train_Y = None, !.train_meta = None,
               !.test_X = Some(split.test_set[1]),
               !.test_Y = Some(split.test_set[2]),
               !.test_meta = Some(split.test_set[3]),
               !.train_ind = split.train_ind, !.test_ind = split.test_ind]
\* __init__, iterate_confs false: the one split is drawn, the generator
\* dropped, the test arrays set
init_static_test(o, r) ==
  LET split == Val(r.out)
  IN [o EXCEPT !._conf_splits = None,
               !.train_X = None, !.train_Y = None, !.train_meta = None,
               !.test_X = Some(split.test_set[1]),
               !.test_Y = Some(split.test_set[2]),
               !.test_meta = Some(split.test_set[3]),
               !.train_ind = split.train_ind, !.test_ind = split.test_ind]

\* faulty variant: the generator is given the test split
init_iterate_evals_of_test_set(o, split) ==
  [o EXCEPT !._eval_splits = Some(_generate_evaluation_subsets(split.test_set))]
\* __init__, iterate_evals true: the generator over the training split
init_iterate_evals(o, split) ==
  [o EXCEPT !._eval_splits = Some(_generate_evaluation_subsets(split.train_set))]

\* __init__, iterate_evals false: the one resample of the training split
init_static_train(o, split) ==
  LET ev == eval_next(_generate_evaluation_subsets(split.train_set), Val(o.rng))
  IN IF ev.err # NoErr THEN Failed(ev.err)
     ELSE [o EXCEPT !.rng = Some(ev.pos),
                    !.train_X = Some(Val(ev.out)[1]),
                    !.train_Y = Some(Val(ev.out)[2]),
                    !.train_meta = Some(Val(ev.out)[3]),
                    !.choices = ev.choices]

\* faulty variant: the number of evaluations is taken for the feature dimension
constructor_train_size_by_evals(train_set_multiplier, X) ==
  train_set_multiplier * X.shape[2]
\* line 121: train_size=train_set_multiplier * self.X_full.shape[2]; X is
\* self.X_full, whose dimensions are 1-based here
constructor_train_size(train_set_multiplier, X) ==
  train_set_multiplier * X.shape[3]

\* the object Data(...) builds from the arguments a, or Failed
init_result(a, entropy) ==
  LET rng0 == RandomState(a.rng, entropy)
      seed == randint(rng0, 0, SeedHigh)
      g0 == _iterate_dataset_configurations(
              None, Some(constructor_train_size(a.train_set_multiplier, a.data[1])),
              Some(seed.v), FALSE)
      o0 == [Blank EXCEPT !.pc = "ready",
                          !.X_full = Some(a.data[1]), !.y_full = Some(a.data[2]),
                          !.meta_full = Some(a.data[3]),
                          !.rng = Some(seed.pos),
                          !._conf_splits = Some(g0), !._eval_splits = None]
  IN IF a.iterate_confs THEN o0
     ELSE LET r == conf_next(g0, a.data, entropy)
          IN IF r.err # NoErr THEN Failed(r.err)
             ELSE IF a.iterate_evals
                  THEN init_iterate_evals(init_static_test(o0, r), Val(r.out))
                  ELSE init_static_train(init_static_test(o0, r), Val(r.out))

\* update, the evaluation-subset generator is present
update_evals(o) ==
  LET r == eval_next(Val(o._eval_splits), Val(o.rng))
  IN IF r.err # NoErr
     THEN [o EXCEPT !.err = r.err, !._eval_splits = Some(r.e)]
     ELSE [o EXCEPT !.err = NoErr, !._eval_splits = Some(r.e), !.rng = Some(r.pos),
                    !.train_X = Some(Val(r.out)[1]),
                    !.train_Y = Some(Val(r.out)[2]),
                    !.train_meta = Some(Val(r.out)[3]),
                    !.choices = r.choices]

\* faulty variant: the test arrays are not assigned
assign_split_without_test(o, r1, r2) ==
  [o EXCEPT !.err = NoErr, !._conf_splits = Some(r1.g), !.rng = Some(r2.pos),
            !.train_X = Some(Val(r2.out)[1]),
            !.train_Y = Some(Val(r2.out)[2]),
            !.train_meta = Some(Val(r2.out)[3]),
            !.train_ind = Val(r1.out).train_ind,
            !.test_ind = Val(r1.out).test_ind,
            !.choices = r2.choices]
\* faulty variant: the training split also replaces the full dataset
assign_split_into_full(o, r1, r2) ==
  [o EXCEPT !.err = NoErr, !._conf_splits = Some(r1.g), !.rng = Some(r2.pos),
            !.X_full = Some(Val(r1.out).train_set[1]),
            !.y_full = Some(Val(r1.out).train_set[2]),
            !.meta_full = Some(Val(r1.out).train_set[3]),
            !.train_X = Some(Val(r2.out)[1]),
            !.train_Y = Some(Val(r2.out)[2]),
            !.train_meta = Some(Val(r2.out)[3]),
            !.test_X = Some(Val(r1.out).test_set[1]),
            !.test_Y = Some(Val(r1.out).test_set[2]),
            !.test_meta = Some(Val(r1.out).test_set[3]),
            !.train_ind = Val(r1.out).train_ind,
            !.test_ind = Val(r1.out).test_ind,
            !.choices = r2.choices]
\* update, lines 152-154: the train arrays take the resample r2 of the training
\* split of r1, the test arrays the test split of r1
assign_split(o, r1, r2) ==
  [o EXCEPT !.err = NoErr, !._conf_splits = Some(r1.g), !.rng = Some(r2.pos),
            !.train_X = Some(Val(r2.out)[1]),
            !.train_Y = Some(Val(r2.out)[2]),
            !.train_meta = Some(Val(r2.out)[3]),
            !.test_X = Some(Val(r1.out).test_set[1]),
            !.test_Y = Some(Val(r1.out).test_set[2]),
            !.test_meta = Some(Val(r1.out).test_set[3]),
            !.train_ind = Val(r1.out).train_ind,
            !.test_ind = Val(r1.out).test_ind,
            !.choices = r2.choices]

\* faulty variant: the test arrays are assigned before the resample is drawn
update_confs_test_first(o) ==
  LET r1 == conf_next(Val(o._conf_splits), full_of(o), 0)
  IN IF r1.err # NoErr
     THEN [o EXCEPT !.err = r1.err, !._conf_splits = Some(r1.g)]
     ELSE LET train_data == Val(r1.out).train_set
              r2 == eval_next(_generate_evaluation_subsets(train_data), Val(o.rng))
          IN IF r2.err # NoErr
             THEN [o EXCEPT !.err = r2.err, !._conf_splits = Some(r1.g),
                            !.test_X = Some(Val(r1.out).test_set[1]),
                            !.test_Y = Some(Val(r1.out).test_set[2]),
                            !.test_meta = Some(Val(r1.out).test_set[3])]
             ELSE assign_split(o, r1, r2)
\* update, the split generator is present
update_confs(o) ==
  LET r1 == conf_next(Val(o._conf_splits), full_of(o), 0)
  IN IF r1.err # NoErr
     THEN [o EXCEPT !.err = r1.err, !._conf_splits = Some(r1.g)]
     ELSE LET train_data == Val(r1.out).train_set
              r2 == eval_next(_generate_evaluation_subsets(train_data), Val(o.rng))
          IN IF r2.err # NoErr
             THEN [o EXCEPT !.err = r2.err, !._conf_splits = Some(r1.g)]
             ELSE assign_split(o, r1, r2)

\* the object after update()
update_result(o) ==
  IF ~IsNone(o._eval_splits) THEN update_evals(o)
  ELSE IF ~IsNone(o._conf_splits) THEN update_confs(o)
  ELSE [o EXCEPT !.err = NoErr]

\* ---------------------------------------------------------------- actions ---
GenUnchanged == UNCHANGED <<gen, gen_out, gen_err, gen_nexts>> /\ UNCHANGED Aux

\* Data(...)
__init__(p) ==
  /\ pc[p] = "new"
  /\ \E entropy \in 0..(StreamLen - 1) : SetObj(p, init_result(args[p], entropy))
  /\ UNCHANGED <<insts, stream, args>>
  /\ GenUnchanged

\* obj.update()
update(p) ==
  /\ pc[p] = "ready"
  /\ nupdates[p] < MaxUpdates
  /\ SetObj(p, [update_result(Obj(p)) EXCEPT !.nupdates = nupdates[p] + 1])
  /\ UNCHANGED <<insts, stream, args>>
  /\ GenUnchanged

\* g = obj._iterate_dataset_configurations(train_frac, train_size, rng,
\* return_indices), called directly on a constructed object
call_iterate(p) ==
  /\ pc[p] = "ready"
  /\ IsNone(gen[p])
  /\ \E tf \in {None} \cup {Some(<<k, FracDen>>) : k \in 0..FracDen},
        ts \in {None} \cup {Some(k) : k \in 0..(MaxN + 1)},
        r \in {None, Some(0)},
        ri \in BOOLEAN :
       \* a size given along with a fraction is MaxN
       /\ ~IsNone(tf) => ts \in {None, Some(MaxN)}
       /\ gen' = [gen EXCEPT ![p] = Some(_iterate_dataset_configurations(tf, ts, r, ri))]
  /\ gen_err' = [gen_err EXCEPT ![p] = NoErr]
  /\ UNCHANGED <<insts, stream, args, pc, err, X_full, y_full, meta_full, rng,
                 _conf_splits, _eval_splits, train_X, train_Y, train_meta,
                 test_X, test_Y, test_meta, train_ind, test_ind, choices,
                 nupdates, gen_out, gen_nexts>>
  /\ UNCHANGED Aux

\* next(g)
gen_next(p) ==
  /\ ~IsNone(gen[p])
  /\ gen_nexts[p] < MaxNext
  /\ \E entropy \in 0..(StreamLen - 1) :
       LET r == conf_next(Val(gen[p]), full_of(Obj(p)), entropy)
       IN /\ gen' = [gen EXCEPT ![p] = Some(r.g)]
          /\ gen_err' = [gen_err EXCEPT ![p] = r.err]
          /\ gen_out' = [gen_out EXCEPT ![p] = IF r.err = NoErr THEN r.out ELSE @]
  /\ gen_nexts' = [gen_nexts EXCEPT ![p] = @ + 1]
  /\ UNCHANGED <<insts, stream, args, pc, err, X_full, y_full, meta_full, rng,
                 _conf_splits, _eval_splits, train_X, train_Y, train_meta,
                 test_X, test_Y, test_meta, train_ind, test_ind, choices,
                 nupdates>>
  /\ UNCHANGED Aux

\* the state of class Data and of the split generators obtained from it
DataVars ==
  <<insts, stream, args, pc, err, X_full, y_full, meta_full, rng,
    _conf_splits, _eval_splits, train_X, train_Y, train_meta,
    test_X, test_Y, test_meta, train_ind, test_ind, choices,
    nupdates, gen, gen_out, gen_err, gen_nexts>>

\* ------------------- _generate_evaluation_subsets, called as a function ---
\* the arguments of a direct call and what the caller holds afterwards
EvalCall(dataset, rng_arg) ==
  [dataset |-> dataset, rng_arg |-> rng_arg, e |-> None, seeded |-> None,
   pos |-> None, out |-> None, err |-> NoErr, nexts |-> 0, draws |-> 0]

\* e = Data._generate_evaluation_subsets(dataset, rng): a generator function,
\* so none of its body runs yet
call_generate ==
  /\ ~IsNone(evgen)
  /\ IsNone(Val(evgen).e)
  /\ evgen' = Some([Val(evgen) EXCEPT
                     !.e = Some(_generate_evaluation_subsets(Val(evgen).dataset))])
  /\ UNCHANGED <<DEFAULT_MLP_PARAMS, models, net, fitrun, mcrun>>
  /\ UNCHANGED DataVars

\* next(e); the first one runs lines 277-288 (the RandomState, then the asserts)
evgen_next ==
  /\ ~IsNone(evgen)
  /\ ~IsNone(Val(evgen).e)
  /\ Val(evgen).nexts < MaxNext
  /\ \E entropy \in 0..(StreamLen - 1) :
       LET v == Val(evgen)
           first == Val(v.e).gi_state = "created"
           pos0 == IF first THEN RandomState(v.rng_arg, entropy) ELSE Val(v.pos)
           r == eval_next(Val(v.e), pos0)
       IN evgen' = Some([v EXCEPT !.e = Some(r.e),
                                  !.seeded = IF first THEN Some(pos0) ELSE @,
                                  !.pos = Some(r.pos),
                                  !.out = IF r.err = NoErr THEN r.out ELSE @,
                                  !.err = r.err,
                                  !.nexts = @ + 1,
                                  !.draws = @ + Size(r.choices)])
  /\ UNCHANGED <<DEFAULT_MLP_PARAMS, models, net, fitrun, mcrun>>
  /\ UNCHANGED DataVars

\* ------------------------------------- pybnn/mcbatchnorm.py: MCBatchNorm ---
\* the dict the module defines at import; learning_rate 0.01 is <<1, 100>>
ModuleDefaults ==
  [num_epochs |-> 500, learning_rate |-> <<1, 100>>, adapt_epoch |-> 5000,
   batch_size |-> 10, n_units |-> <<50, 50, 50>>, input_dims |-> 1,
   output_dims |-> 1]

\* self.mlp_params names the module's dict object itself, not a copy of it
deref(ref) == Val(DEFAULT_MLP_PARAMS)

\* lines 73-80 on the dict d: the given value for every key d already has; a
\* key d does not have raises KeyError at line 76, is logged and skipped
apply_overrides(d, mlp_params) ==
  IF IsNone(mlp_params) THEN d
  ELSE [key \in DOMAIN d |->
          IF key \in DOMAIN Val(mlp_params) THEN Val(mlp_params)[key] ELSE d[key]]

\* _init_nn: FC_k, BatchNorm_k, Tanh_k for each hidden layer, then Output
_init_nn(params) ==
  LET n_units == <<params.input_dims>> \o params.n_units
      hidden == Len(n_units) - 1
  IN [j \in 1..(3 * hidden + 1) |->
        LET layer_ctr == (j - 1) \div 3
            in_features == n_units[layer_ctr + 1]
        IN IF j = 3 * hidden + 1
           THEN [name |-> <<"Output">>, features |-> <<n_units[Len(n_units)], params.output_dims>>]
           ELSE IF (j - 1) % 3 = 0
           THEN [name |-> <<"FC", layer_ctr>>, features |-> <<in_features, n_units[layer_ctr + 2]>>]
           ELSE IF (j - 1) % 3 = 1
           THEN [name |-> <<"BatchNorm", layer_ctr>>, features |-> <<n_units[layer_ctr + 2]>>]
           ELSE [name |-> <<"Tanh", layer_ctr>>, features |-> <<>>]]

\* the hidden layer sizes a model is given: 1..MaxLayers layers
HiddenSizes == UNION {[1..n -> 1..MaxUnits] : n \in 1..MaxLayers}

\* the dicts a caller passes as mlp_params: values other than the defaults
\* for some of two accepted keys and one key that is not accepted
override_value(key, j) ==
  IF key = "batch_size" THEN ModuleDefaults.batch_size + j
  ELSE IF key = "input_dims" THEN ModuleDefaults.input_dims + j
  ELSE j
OverrideDicts ==
  {[key \in K |-> override_value(key, j)] :
     K \in SUBSET {"batch_size", "input_dims", "dropout"}, j \in 1..MaxOverride}

\* MCBatchNorm(mlp_params=mlp_params), lines 65-85
MCBatchNorm__init__ ==
  /\ ~IsNone(DEFAULT_MLP_PARAMS)
  /\ Len(models) < MaxModels
  /\ \E mlp_params \in {None} \cup {Some(d) : d \in OverrideDicts} :
       LET d == apply_overrides(Val(DEFAULT_MLP_PARAMS), mlp_params)
       IN /\ DEFAULT_MLP_PARAMS' = Some(d)
          /\ models' = Append(models,
                              [given |-> mlp_params,
                               mlp_params |-> "DEFAULT_MLP_PARAMS",
                               model |-> _init_nn(d)])
  /\ UNCHANGED <<evgen, net, fitrun, mcrun>>
  /\ UNCHANGED DataVars

\* ------------------------------ pybnn/models/mcbatchnorm.py: MCBatchNorm ---
\* MLP.mlplayergen(layer_size, input_dims, output_dims=None): one nn.Linear
\* per hidden layer, each taking the size of the layer before it
mlplayergen(layer_size, input_dims) ==
  [k \in 1..Len(layer_size) |->
     [kind |-> "Linear", id |-> <<"fclayer", k>>,
      in_features |-> IF k = 1 THEN input_dims ELSE layer_size[k - 1],
      out_features |-> layer_size[k]]]

\* bnlayer(num_features=n); id tells apart the objects of separate calls
bnlayer(n, id) == [kind |-> "BatchNorm1d", id |-> <<"bnlayer", id>>, num_features |-> n]

\* OrderedDict(items): a key seen again keeps its place and takes the new value
RECURSIVE OrderedDict_update(_, _)
OrderedDict_update(d, items) ==
  IF items = <<>> THEN d
  ELSE LET it == Head(items)
           d2 == IF \E j \in 1..Len(d) : d[j].name = it.name
                 THEN [j \in 1..Len(d) |-> IF d[j].name = it.name THEN it ELSE d[j]]
                 ELSE Append(d, it)
       IN OrderedDict_update(d2, Tail(items))
OrderedDict(items) == OrderedDict_update(<<>>, items)

\* lines 110-114: the (name, module) pairs the loop appends for layer_idx
loop_layers(fclayers, bns, layer_idx) ==
  <<[name |-> <<"BatchNorm", layer_idx>>, module |-> bns[layer_idx]],
    [name |-> <<"FC", layer_idx>>, module |-> fclayers[layer_idx]],
    [name |-> <<"ReLU", layer_idx>>,
     module |-> [kind |-> "ReLU", id |-> <<"relu", layer_idx>>]]>>

RECURSIVE all_loop_layers(_, _, _)
all_loop_layers(fclayers, bns, upto) ==
  IF upto = 0 THEN <<>>
  ELSE all_loop_layers(fclayers, bns, upto - 1) \o loop_layers(fclayers, bns, upto)

\* _generate_network, lines 84-119, for at least one hidden layer; after the
\* loop layer_idx still holds the index of the last hidden layer
_generate_network(o) ==
  LET n_units == o.hidden_layer_sizes
      fclayers == mlplayergen(n_units, o.input_dims)
      last_idx == Len(fclayers)
      batchnorm_layers ==
        [k \in 1..(last_idx + 1) |->
           IF k <= last_idx THEN bnlayer(fclayers[k].in_features, k)
           ELSE bnlayer(n_units[Len(n_units)], k)]
      layers ==
        all_loop_layers(fclayers, batchnorm_layers, last_idx) \o
        <<[name |-> <<"BatchNorm", last_idx>>, module |-> batchnorm_layers[last_idx + 1]],
          [name |-> <<"Output">>,
           module |-> [kind |-> "Linear", id |-> <<"output">>,
                       in_features |-> n_units[Len(n_units)],
                       out_features |-> o.output_dims]]>>
  IN [o EXCEPT !.batchnorm_layers = Some(batchnorm_layers),
               !.network = Some(OrderedDict(layers))]

\* self._generate_network() on the model object
generate_network ==
  /\ ~IsNone(net)
  /\ net' = Some(_generate_network(Val(net)))
  /\ net' # net
  /\ UNCHANGED <<evgen, DEFAULT_MLP_PARAMS, models, fitrun, mcrun>>
  /\ UNCHANGED DataVars

\* ------------------------------------------------------ MCBatchNorm.fit ---
\* cs.sample_configuration: the hyperparameters at the ends of their ranges
\* (lines 148-153); precision is the exponent of its lower end for np.std(y) = 1
ConfSpace ==
  {[batch_size |-> b, weight_decay |-> w, num_epochs |-> e, precision |-> -2] :
     b \in {5, 10}, w \in {-15, -1}, e \in {5}}

\* lines 169-172 and 187: the entry of one configuration and its validation
\* loss; 10 ** k for k < 0 is the pair <<10, k>>
result_of(valid_loss, conf) ==
  <<valid_loss, 2 ^ conf.batch_size, <<10, conf.weight_decay>>,
    100 * conf.num_epochs, <<10, conf.precision>>>>

\* faulty variant: a later configuration with the same loss replaces the optimum
is_new_optimum_on_ties(optim, valid_loss) ==
  IsNone(optim) \/ valid_loss <= Val(optim)[1]
\* line 189: optim is None or valid_loss < optim[0]
is_new_optimum(optim, valid_loss) ==
  IsNone(optim) \/ valid_loss < Val(optim)[1]

\* faulty variant: the flag is not restored
restore_tblog_skipped(f) == f.globalConfig_tblog
\* line 198: globalConfig.tblog = old_tblog_flag
restore_tblog(f) == Val(f.old_tblog_flag)

\* a call self.fit(X, y) of a model with num_confs, globalConfig.tblog as
\* found; tblog_before keeps that value, tblog_seen the value of the flag
\* during each training, in order
FitCall(num_confs, tblog) ==
  [pc |-> "called", err |-> NoErr, num_confs |-> num_confs,
   globalConfig_tblog |-> tblog, old_tblog_flag |-> None,
   tblog_before |-> tblog, tblog_seen |-> <<>>,
   confs |-> <<>>, losses |-> <<>>, optim |-> None, history |-> <<>>,
   batch_size |-> None, weight_decay |-> None, num_epochs |-> None,
   precision |-> None, train_network |-> <<>>]

\* fit, lines 142-162: the configurations are sampled, the flag is saved and
\* switched off
fit_sample ==
  /\ ~IsNone(fitrun)
  /\ Val(fitrun).pc = "called"
  /\ \E confs \in [1..Val(fitrun).num_confs -> ConfSpace] :
       fitrun' = Some([Val(fitrun) EXCEPT
                        !.pc = "loop", !.confs = confs,
                        !.old_tblog_flag = Some(Val(fitrun).globalConfig_tblog),
                        !.globalConfig_tblog = FALSE])
  /\ UNCHANGED <<evgen, DEFAULT_MLP_PARAMS, models, net, mcrun>>
  /\ UNCHANGED DataVars

\* fit, lines 164-194: one pass of the loop; the validation loss of the
\* candidate network is whatever its training gives. Nothing in the loop is in
\* a try block: an exception of the candidate's training ends fit there.
fit_candidate ==
  /\ ~IsNone(fitrun)
  /\ Val(fitrun).pc = "loop"
  /\ Len(Val(fitrun).history) < Len(Val(fitrun).confs)
  /\ \/ \E valid_loss \in 0..MaxLoss :
          LET f == Val(fitrun)
              conf == f.confs[Len(f.history) + 1]
              res == result_of(valid_loss, conf)
          IN fitrun' = Some([f EXCEPT
                              !.tblog_seen = Append(@, <<"candidate", f.globalConfig_tblog>>),
                              !.losses = Append(@, valid_loss),
                              !.optim = IF is_new_optimum(f.optim, valid_loss)
                                        THEN Some(res) ELSE @,
                              !.history = Append(@, res)])
     \/ fitrun' = Some([Val(fitrun) EXCEPT
                         !.pc = "raised", !.err = Raised("Exception"),
                         !.tblog_seen = Append(@, <<"candidate",
                                                   Val(fitrun).globalConfig_tblog>>)])
  /\ UNCHANGED <<evgen, DEFAULT_MLP_PARAMS, models, net, mcrun>>
  /\ UNCHANGED DataVars

\* fit, lines 196-213: the flag is restored and the final network trained with
\* the optimum; formatting the log message with optim = None raises TypeError
fit_final ==
  /\ ~IsNone(fitrun)
  /\ Val(fitrun).pc = "loop"
  /\ Len(Val(fitrun).history) = Len(Val(fitrun).confs)
  /\ LET f == Val(fitrun)
     IN IF IsNone(f.optim)
        THEN fitrun' = Some([f EXCEPT !.pc = "raised", !.err = Raised("TypeError")])
        ELSE LET optim == Val(f.optim)
             IN fitrun' = Some([f EXCEPT
                  !.pc = "returned",
                  !.globalConfig_tblog = restore_tblog(f),
                  !.tblog_seen = Append(@, <<"final", restore_tblog(f)>>),
                  !.batch_size = Some(optim[2]),
                  !.weight_decay = Some(optim[3]),
                  !.num_epochs = Some(optim[4]),
                  !.precision = Some(optim[5]),
                  !.train_network = Append(@, <<optim[2], optim[3], optim[4], optim[5]>>)])
  /\ UNCHANGED <<evgen, DEFAULT_MLP_PARAMS, models, net, mcrun>>
  /\ UNCHANGED DataVars

\* ----------------------------------------------- MCBatchNorm._predict_mc ---
\* The running statistics of a batch-normalization layer are the sequence of
\* inputs they have absorbed since they were last reset.

\* faulty variant: only the first layer is reset
reset_running_stats_first_only(stats) ==
  [l \in DOMAIN stats |-> IF l = 1 THEN <<>> ELSE stats[l]]
\* line 254: layer.reset_running_stats() for every layer in batchnorm_layers
reset_running_stats(stats) == [l \in DOMAIN stats |-> <<>>]

\* lines 116-119: of the layers in batchnorm_layers, the one recorded for the
\* last hidden layer lost its place in the network to the output layer's
in_network(l, stats) == l # Len(stats) - 1

\* self.network(x): in training mode every layer of the network absorbs the
\* statistics of x, in evaluation mode the running statistics are used and
\* left alone
forward(stats, training, x) ==
  IF training
  THEN [l \in DOMAIN stats |-> IF in_network(l, stats) THEN Append(stats[l], x) ELSE stats[l]]
  ELSE stats

\* a call self._predict_mc(X_test, nsamples) on a trained model with nbn
\* layers in batchnorm_layers: outer is nsamples * batch_size // X.shape[0],
\* nbatches the minibatches one pass of iterate_minibatches yields
PredictCall(outer, nbatches, nbn, training) ==
  [pc |-> "for", outer |-> outer, nbatches |-> nbatches, ctr |-> 0, batch |-> 0,
   training |-> training, stats |-> [l \in 1..nbn |-> <<"fit">>],
   log |-> <<>>, Yt_hat |-> <<>>]

\* lines 250-251: the next minibatch of the two loops, if any
mc_next_batch ==
  /\ ~IsNone(mcrun)
  /\ Val(mcrun).pc = "for"
  /\ LET m == Val(mcrun)
     IN IF m.ctr >= m.outer \/ m.nbatches = 0
        THEN mcrun' = Some([m EXCEPT !.pc = "returned"])
        ELSE mcrun' = Some([m EXCEPT !.pc = "reset", !.batch = @ + 1])
  /\ UNCHANGED <<evgen, DEFAULT_MLP_PARAMS, models, net, fitrun>>
  /\ UNCHANGED DataVars

\* line 254
mc_reset ==
  /\ ~IsNone(mcrun)
  /\ Val(mcrun).pc = "reset"
  /\ mcrun' = Some([Val(mcrun) EXCEPT !.pc = "train",
                                      !.stats = reset_running_stats(@),
                                      !.log = <<"reset_running_stats">>])
  /\ UNCHANGED <<evgen, DEFAULT_MLP_PARAMS, models, net, fitrun>>
  /\ UNCHANGED DataVars

\* line 258: self.network.train()
mc_train ==
  /\ ~IsNone(mcrun)
  /\ Val(mcrun).pc = "train"
  /\ mcrun' = Some([Val(mcrun) EXCEPT !.pc = "forward", !.training = TRUE,
                                      !.log = Append(@, "train")])
  /\ UNCHANGED <<evgen, DEFAULT_MLP_PARAMS, models, net, fitrun>>
  /\ UNCHANGED DataVars

\* line 259: _ = self.network(batch_inputs)
mc_forward ==
  /\ ~IsNone(mcrun)
  /\ Val(mcrun).pc = "forward"
  /\ LET m == Val(mcrun)
         batch_inputs == <<m.ctr, m.batch>>
     IN mcrun' = Some([m EXCEPT !.pc = "eval",
                                !.stats = forward(@, m.training, batch_inputs),
                                !.log = Append(@, <<"forward", batch_inputs, m.training>>)])
  /\ UNCHANGED <<evgen, DEFAULT_MLP_PARAMS, models, net, fitrun>>
  /\ UNCHANGED DataVars

\* line 263: self.network.eval()
mc_eval ==
  /\ ~IsNone(mcrun)
  /\ Val(mcrun).pc = "eval"
  /\ mcrun' = Some([Val(mcrun) EXCEPT !.pc = "append", !.training = FALSE,
                                      !.log = Append(@, "eval")])
  /\ UNCHANGED <<evgen, DEFAULT_MLP_PARAMS, models, net, fitrun>>
  /\ UNCHANGED DataVars

\* line 264: Yt_hat.append(self.network(X_)...), then the loops go on
mc_append ==
  /\ ~IsNone(mcrun)
  /\ Val(mcrun).pc = "append"
  /\ LET m == Val(mcrun)
         last == m.batch = m.nbatches
     IN mcrun' = Some([m EXCEPT
          !.pc = "for",
          !.stats = forward(@, m.training, "X_"),
          !.log = Append(@, <<"forward", "X_", m.training>>),
          !.Yt_hat = Append(@, [training |-> m.training, stats |-> m.stats,
                                log |-> m.log]),
          !.ctr = IF last THEN @ + 1 ELSE @,
          !.batch = IF last THEN 0 ELSE @])
  /\ UNCHANGED <<evgen, DEFAULT_MLP_PARAMS, models, net, fitrun>>
  /\ UNCHANGED DataVars

\* the state outside class Data when nothing of it is in use
AuxIdle ==
  /\ evgen = None
  /\ DEFAULT_MLP_PARAMS = None
  /\ models = <<>>
  /\ net = None
  /\ fitrun = None
  /\ mcrun = None

\* ------------------------------------------------------------- datasets ---
\* what read_hpolib_benchmark_data returns: the three arrays are reshaped from
\* the rows of one table, so they agree on N and on i
AlignedData(n, i, dx) == <<ndarray(0, n, i, dx), ndarray(1, n, i, 1), ndarray(2, n, i, MaxD)>>

Datasets == {AlignedData(n, MaxI, dx) : n \in (MaxN - 1)..MaxN, dx \in 1..MaxD}
Streams == [0..(StreamLen - 1) -> 0..(RngMax - 1)]
Flags == BOOLEAN \X BOOLEAN
Rngs == {None, Some(0), Some(1)}

\* class Data before any constructor has run
InitData(I, D, F, R, M, S) ==
  /\ insts = I
  /\ stream \in S
  /\ \E d \in D, f \in F, r \in R, m \in M :
       args = [p \in I |-> [data |-> d, iterate_confs |-> f[1], iterate_evals |-> f[2],
                            rng |-> r, train_set_multiplier |-> m]]
  /\ pc = [p \in I |-> Blank.pc]
  /\ err = [p \in I |-> Blank.err]
  /\ X_full = [p \in I |-> None]
  /\ y_full = [p \in I |-> None]
  /\ meta_full = [p \in I |-> None]
  /\ rng = [p \in I |-> None]
  /\ _conf_splits = [p \in I |-> None]
  /\ _eval_splits = [p \in I |-> None]
  /\ train_X = [p \in I |-> None]
  /\ train_Y = [p \in I |-> None]
  /\ train_meta = [p \in I |-> None]
  /\ test_X = [p \in I |-> None]
  /\ test_Y = [p \in I |-> None]
  /\ test_meta = [p \in I |-> None]
  /\ train_ind = [p \in I |-> <<>>]
  /\ test_ind = [p \in I |-> <<>>]
  /\ choices = [p \in I |-> <<>>]
  /\ nupdates = [p \in I |-> 0]
  /\ gen = [p \in I |-> None]
  /\ gen_out = [p \in I |-> None]
  /\ gen_err = [p \in I |-> NoErr]
  /\ gen_nexts = [p \in I |-> 0]

\* the state before any constructor has run; nothing else is in use
InitFrom(I, D, F, R, M, S) == InitData(I, D, F, R, M, S) /\ AuxIdle

\* one object, built from a benchmark file and updated by the experiment loop
Init == InitFrom({1}, Datasets, Flags, Rngs, 1..MaxMult, Streams)

Next == \E p \in insts : __init__(p) \/ update(p)

Spec == Init /\ [][Next]_vars

\* one object in full-iteration mode, and direct calls of its split routine
InitGen ==
  InitFrom({1}, {AlignedData(n, MaxI, 1) : n \in (MaxN - 1)..MaxN},
           {<<TRUE, FALSE>>}, {Some(0)}, {1}, Streams)

NextGen == \E p \in insts : __init__(p) \/ call_iterate(p) \/ gen_next(p)

SpecGen == InitGen /\ [][NextGen]_vars

\* two objects built from the same arguments with an integer seed
InitDet ==
  InitFrom({1, 2}, {AlignedData(MaxN, MaxI, 1)},
           {<<TRUE, FALSE>>, <<FALSE, TRUE>>, <<FALSE, FALSE>>},
           {Some(0), Some(1)}, 1..MaxMult, Streams)

SpecDet == InitDet /\ [][Next]_vars

\* one object over arrays that need not agree on N or on i: what the
\* constructor receives when the reader it calls (a static method, replaceable)
\* does not return aligned arrays
AnyData ==
  {<<ndarray(0, n, i, 1), ndarray(1, ny, iy, 1), ndarray(2, nm, im, MaxD)>> :
     n \in {MaxN}, i \in {MaxI},
     ny \in (MaxN - 1)..MaxN, iy \in (MaxI - 1)..MaxI,
     nm \in (MaxN - 1)..MaxN, im \in (MaxI - 1)..MaxI}

InitShapes == InitFrom({1}, AnyData, Flags, {Some(0)}, {1}, Streams)

SpecShapes == InitShapes /\ [][Next]_vars

\* a direct call of the evaluation-subset routine over three slices that need
\* not agree on M or on i
InitEval ==
  /\ InitData({}, {AlignedData(1, 1, 1)}, {<<TRUE, FALSE>>}, {None}, {1}, Streams)
  /\ evgen \in {Some(EvalCall(d, r)) : d \in AnyData, r \in Rngs}
  /\ DEFAULT_MLP_PARAMS = None
  /\ models = <<>>
  /\ net = None
  /\ fitrun = None
  /\ mcrun = None

NextEval == call_generate \/ evgen_next

SpecEval == InitEval /\ [][NextEval]_vars

\* the legacy module imported, and models constructed one after another
InitLegacy ==
  /\ InitData({}, {AlignedData(1, 1, 1)}, {<<TRUE, FALSE>>}, {None}, {1},
              {[k \in 0..(StreamLen - 1) |-> 0]})
  /\ evgen = None
  /\ DEFAULT_MLP_PARAMS = Some(ModuleDefaults)
  /\ models = <<>>
  /\ net = None
  /\ fitrun = None
  /\ mcrun = None

NextLegacy == MCBatchNorm__init__

SpecLegacy == InitLegacy /\ [][NextLegacy]_vars

\* a models.MCBatchNorm object with its sizes set and no network yet
InitNet ==
  /\ InitData({}, {AlignedData(1, 1, 1)}, {<<TRUE, FALSE>>}, {None}, {1},
              {[k \in 0..(StreamLen - 1) |-> 0]})
  /\ evgen = None
  /\ DEFAULT_MLP_PARAMS = None
  /\ models = <<>>
  /\ \E i \in 1..MaxUnits, hs \in HiddenSizes, od \in 1..MaxUnits :
       net = Some([input_dims |-> i, hidden_layer_sizes |-> hs, output_dims |-> od,
                   batchnorm_layers |-> None, network |-> None])
  /\ fitrun = None
  /\ mcrun = None

NextNet == generate_network

SpecNet == InitNet /\ [][NextNet]_vars

\* one call of fit on a model, with the process-wide flag either way
InitFit ==
  /\ InitData({}, {AlignedData(1, 1, 1)}, {<<TRUE, FALSE>>}, {None}, {1},
              {[k \in 0..(StreamLen - 1) |-> 0]})
  /\ evgen = None
  /\ DEFAULT_MLP_PARAMS = None
  /\ models = <<>>
  /\ net = None
  /\ fitrun \in {Some(FitCall(n, b)) : n \in 0..MaxConfs, b \in BOOLEAN}
  /\ mcrun = None

NextFit == fit_sample \/ fit_candidate \/ fit_final

SpecFit == InitFit /\ [][NextFit]_vars

\* one call of _predict_mc on a trained model, its network in either mode
InitMC ==
  /\ InitData({}, {AlignedData(1, 1, 1)}, {<<TRUE, FALSE>>}, {None}, {1},
              {[k \in 0..(StreamLen - 1) |-> 0]})
  /\ evgen = None
  /\ DEFAULT_MLP_PARAMS = None
  /\ models = <<>>
  /\ net = None
  /\ fitrun = None
  /\ mcrun \in {Some(PredictCall(o, nb, nbn, t)) :
                  o \in 0..MaxOuter, nb \in 0..MaxBatches,
                  nbn \in 2..(MaxLayers + 1), t \in BOOLEAN}

NextMC == mc_next_batch \/ mc_reset \/ mc_train \/ mc_forward \/ mc_eval \/ mc_append

SpecMC == InitMC /\ [][NextMC]_vars

\* ------------------------------------------------------------- properties ---
\* the index vectors tr and te split 0..n-1
Partition(tr, te, n) ==
  /\ Range(tr) \cap Range(te) = {}
  /\ Range(tr) \cup Range(te) = 0..(n - 1)

\* T has one row per configuration of the slice S, in the same order, and row k
\* is one of the evaluations S holds for configuration k
OneEvalPerRow(T, S) ==
  /\ T.shape = <<S.shape[1], S.shape[3]>>
  /\ DOMAIN T.a = 0..(S.shape[1] - 1)
  /\ \A k \in 0..(S.shape[1] - 1) :
       \E e \in 0..(S.shape[2] - 1) : T.a[k] = S.a[k][e]

\* the training size the constructor asks for
Nt(p) == args[p].train_set_multiplier * args[p].data[1].shape[3]
Nconf(p) == args[p].data[1].shape[1]
Mode1(p) == args[p].iterate_confs
Mode2(p) == ~args[p].iterate_confs /\ args[p].iterate_evals
Mode3(p) == ~args[p].iterate_confs /\ ~args[p].iterate_evals
Updated(p) == pc[p] = "ready" /\ nupdates[p] >= 1 /\ err[p] = NoErr
HasTrain(p) == ~IsNone(train_X[p]) /\ ~IsNone(train_Y[p]) /\ ~IsNone(train_meta[p])
HasTest(p) == ~IsNone(test_X[p]) /\ ~IsNone(test_Y[p]) /\ ~IsNone(test_meta[p])
Arrays(p) == <<train_X[p], train_Y[p], train_meta[p], test_X[p], test_Y[p], test_meta[p]>>

\* C1: every split a split generator yields for a training size Nt with
\* 0 < Nt < N, on its first advance and on every later one, has disjoint train
\* and test index sets whose union is 0..N-1, Nt distinct train indices and
\* N-Nt distinct test indices.
C1_SplitPartitions ==
  \A p \in insts :
    ~IsNone(gen_out[p]) =>
      LET out == Val(gen_out[p])
          n == Val(X_full[p]).shape[1]
          nt == Val(Val(gen[p]).train_size)
      IN (0 < nt /\ nt < n) =>
           /\ Partition(out.train_ind, out.test_ind, n)
           /\ Size(out.train_ind) = nt
           /\ Cardinality(Range(out.train_ind)) = nt
           /\ Size(out.test_ind) = n - nt
           /\ Cardinality(Range(out.test_ind)) = n - nt

C1_Witness ==
  \E p \in insts :
    /\ gen_nexts[p] >= 2
    /\ gen_err[p] = NoErr
    /\ ~IsNone(gen_out[p])
    /\ Val(Val(gen[p]).train_size) > 0
    /\ Val(Val(gen[p]).train_size) < Val(X_full[p]).shape[1]
    /\ Size(Val(gen_out[p]).test_ind) >= 1

\* C2: in full-iteration mode, after every update that returns, the train
\* arrays hold one evaluation of each of the Nt training configurations of the
\* split that update drew, the test arrays hold all evaluations of the other
\* N-Nt configurations of that split, and the two index sets split 0..N-1.
C2_FullIterationUpdate ==
  \A p \in insts :
    (Mode1(p) /\ Updated(p)) =>
      LET full == full_of(Obj(p))
          g == Val(_conf_splits[p])
          tr == train_ind[p]
          te == test_ind[p]
          i == full[1].shape[2]
      IN /\ HasTrain(p) /\ HasTest(p)
         /\ g.gi_state = "suspended"
         /\ Size(tr) = Nt(p) /\ Size(te) = Nconf(p) - Nt(p)
         /\ Partition(tr, te, Nconf(p))
         /\ Val(train_X[p]).shape = <<Nt(p), full[1].shape[3]>>
         /\ Val(train_Y[p]).shape = <<Nt(p), full[2].shape[3]>>
         /\ Val(train_meta[p]).shape = <<Nt(p), full[3].shape[3]>>
         /\ OneEvalPerRow(Val(train_X[p]), take(full[1], tr))
         /\ OneEvalPerRow(Val(train_Y[p]), take(full[2], tr))
         /\ OneEvalPerRow(Val(train_meta[p]), take(full[3], tr))
         /\ Val(test_X[p]).shape = <<Nconf(p) - Nt(p), i, full[1].shape[3]>>
         /\ Val(test_Y[p]).shape = <<Nconf(p) - Nt(p), i, full[2].shape[3]>>
         /\ Val(test_meta[p]).shape = <<Nconf(p) - Nt(p), i, full[3].shape[3]>>
         /\ \A k \in 0..(Size(te) - 1) :
              /\ Val(test_X[p]).a[k] = full[1].a[te[k]]
              /\ Val(test_Y[p]).a[k] = full[2].a[te[k]]
              /\ Val(test_meta[p]).a[k] = full[3].a[te[k]]

C2_Witness ==
  \E p \in insts :
    /\ Mode1(p) /\ Updated(p) /\ nupdates[p] >= 2
    /\ Nt(p) > 0 /\ Nt(p) < Nconf(p)
    /\ Val(test_X[p]).shape[1] >= 1

\* C3: in fully static mode no step changes the train or test arrays of a
\* constructed object: after any number of update calls they are the arrays
\* computed at construction.
C3_StaticUpdateNoOp ==
  [][\A p \in insts :
       (pc[p] = "ready" /\ Mode3(p)) =>
         /\ HasTrain(p) /\ HasTest(p)
         /\ train_X'[p] = train_X[p]
         /\ train_Y'[p] = train_Y[p]
         /\ train_meta'[p] = train_meta[p]
         /\ test_X'[p] = test_X[p]
         /\ test_Y'[p] = test_Y[p]
         /\ test_meta'[p] = test_meta[p]]_vars

C3_Witness ==
  \E p \in insts :
    /\ Mode3(p) /\ Updated(p) /\ nupdates[p] >= 2
    /\ HasTrain(p) /\ HasTest(p)
    /\ Val(train_X[p]).shape[1] >= 1

\* C4 (state part): in static-test mode the test arrays are all evaluations
\* of the held-out configurations of the construction-time split, row k of the
\* train arrays is one evaluation of the k-th training configuration of that
\* split, and the train and test configurations are disjoint.
C4_StaticTestState ==
  \A p \in insts :
    (pc[p] = "ready" /\ Mode2(p)) =>
      LET full == full_of(Obj(p))
          tr == train_ind[p]
          te == test_ind[p]
      IN /\ HasTest(p)
         /\ Partition(tr, te, Nconf(p))
         /\ Val(test_X[p]) = take(full[1], te)
         /\ Val(test_Y[p]) = take(full[2], te)
         /\ Val(test_meta[p]) = take(full[3], te)
         /\ Val(_eval_splits[p]).dataset = take3(full, tr)
         /\ Updated(p) =>
              /\ HasTrain(p)
              /\ OneEvalPerRow(Val(train_X[p]), take(full[1], tr))
              /\ OneEvalPerRow(Val(train_Y[p]), take(full[2], tr))
              /\ OneEvalPerRow(Val(train_meta[p]), take(full[3], tr))

\* C4: in static-test mode, update changes only the training arrays: the test
\* arrays and the split stay the ones fixed at construction, and the state
\* part above holds throughout.
C4_StaticTestFrozen ==
  /\ []C4_StaticTestState
  /\ [][\A p \in insts :
          (pc[p] = "ready" /\ Mode2(p)) =>
            /\ test_X'[p] = test_X[p]
            /\ test_Y'[p] = test_Y[p]
            /\ test_meta'[p] = test_meta[p]
            /\ train_ind'[p] = train_ind[p]
            /\ test_ind'[p] = test_ind[p]
            /\ Val(_eval_splits'[p]).dataset = Val(_eval_splits[p]).dataset]_vars

C4_Witness ==
  \E p \in insts :
    /\ Mode2(p) /\ Updated(p) /\ nupdates[p] >= 2
    /\ HasTrain(p) /\ HasTest(p)
    /\ Val(train_X[p]).shape[1] >= 1
    /\ Val(test_X[p]).shape[1] >= 1

\* C5: every evaluation-subset draw on a slice of shape [M, i, D] gives three
\* outputs of shape [M, D_*], rows in the order of the slice, and row k of each
\* output is one of the i evaluations at row k of the matching input.
C5_EvalSubsetRows ==
  \A p \in insts :
    (pc[p] = "ready" /\ HasTrain(p)) =>
      LET slice == take3(full_of(Obj(p)), train_ind[p])
      IN /\ OneEvalPerRow(Val(train_X[p]), slice[1])
         /\ OneEvalPerRow(Val(train_Y[p]), slice[2])
         /\ OneEvalPerRow(Val(train_meta[p]), slice[3])

C5_Witness ==
  \E p \in insts :
    /\ pc[p] = "ready" /\ HasTrain(p)
    /\ Val(train_X[p]).shape[1] >= 2
    /\ \E k \in DOMAIN choices[p] : choices[p][k] >= 1

\* C6: the three outputs of an evaluation-subset draw are aligned: for every
\* row k one evaluation index e_k in 0..i-1 gives the features, the outputs
\* and the metadata of row k.
C6_EvalSubsetAligned ==
  \A p \in insts :
    (pc[p] = "ready" /\ HasTrain(p)) =>
      LET slice == take3(full_of(Obj(p)), train_ind[p])
      IN \A k \in 0..(slice[1].shape[1] - 1) :
           \E e \in 0..(slice[1].shape[2] - 1) :
             /\ Val(train_X[p]).a[k] = slice[1].a[k][e]
             /\ Val(train_Y[p]).a[k] = slice[2].a[k][e]
             /\ Val(train_meta[p]).a[k] = slice[3].a[k][e]

C6_Witness ==
  \E p \in insts :
    /\ Updated(p) /\ HasTrain(p)
    /\ Val(train_X[p]).shape[1] >= 2
    /\ \E k, l \in DOMAIN choices[p] : choices[p][k] # choices[p][l]

\* C7: two objects built from the same dataset, flags and integer seed hold
\* the same train and test arrays whenever they have made the same number of
\* update calls, and their constructors end the same way.
C7_Deterministic ==
  \A p, q \in insts :
    /\ (pc[p] # "new" /\ pc[q] # "new") => pc[p] = pc[q]
    /\ (pc[p] = "ready" /\ pc[q] = "ready" /\ nupdates[p] = nupdates[q]) =>
         /\ Arrays(p) = Arrays(q)
         /\ err[p] = err[q]

C7_Witness ==
  \E p, q \in insts :
    /\ p # q
    /\ args[p] = args[q]
    /\ Updated(p) /\ Updated(q)
    /\ nupdates[p] >= 2 /\ nupdates[q] = nupdates[p]
    /\ HasTrain(p) /\ HasTest(p)

\* C8: a split generator yields no split for a training size outside the open
\* interval (0, N).
C8_OutOfRangeSizeFails ==
  \A p \in insts :
    ~IsNone(gen_out[p]) =>
      /\ Val(Val(gen[p]).train_size) > 0
      /\ Val(Val(gen[p]).train_size) < Val(X_full[p]).shape[1]

C10_MissingSizeFailsAtRequest ==
  \A p \in insts :
    (~IsNone(gen[p]) /\ IsNone(Val(gen[p]).train_frac) /\ IsNone(Val(gen[p]).train_size)) =>
      gen_err[p] # NoErr

\* C11: when train_frac is given, every split a generator yields has exactly
\* floor(train_frac * N) training configurations, whatever train_size was given.
C11_FractionPrecedence ==
  \A p \in insts :
    (~IsNone(gen_out[p]) /\ ~IsNone(Val(gen[p]).train_frac)) =>
      LET out == Val(gen_out[p])
          n == Val(X_full[p]).shape[1]
          want == (Val(Val(gen[p]).train_frac)[1] * n) \div Val(Val(gen[p]).train_frac)[2]
      IN /\ Size(out.train_ind) = want
         /\ out.train_set[1].shape[1] = want
         /\ out.test_set[1].shape[1] = n - want

C11_Witness ==
  \E p \in insts :
    /\ ~IsNone(gen_out[p]) /\ gen_err[p] = NoErr /\ gen_nexts[p] >= 2
    /\ ~IsNone(Val(gen[p]).train_frac)
    /\ ~IsNone(Val(gen[p]).given_size)
    /\ Val(Val(gen[p]).given_size) # Size(Val(gen_out[p]).train_ind)
    /\ Size(Val(gen_out[p]).train_ind) >= 1

\* the six arrays of p are those of one split: the test arrays are the test
\* split, the train arrays (when set) one evaluation per training configuration
OneSplit(p) ==
  LET full == full_of(Obj(p))
  IN /\ HasTest(p) =>
          /\ Val(test_X[p]) = take(full[1], test_ind[p])
          /\ Val(test_Y[p]) = take(full[2], test_ind[p])
          /\ Val(test_meta[p]) = take(full[3], test_ind[p])
     /\ HasTrain(p) =>
          /\ HasTest(p)
          /\ OneEvalPerRow(Val(train_X[p]), take(full[1], train_ind[p]))
          /\ OneEvalPerRow(Val(train_Y[p]), take(full[2], train_ind[p]))
          /\ OneEvalPerRow(Val(train_meta[p]), take(full[3], train_ind[p]))
     /\ (HasTrain(p) \/ HasTest(p)) =>
          Range(train_ind[p]) \cap Range(test_ind[p]) = {}

\* C12: an update call that raises leaves the six arrays as they were, and
\* after any update call the arrays that are set belong to one split.
C12_FailedUpdateAtomic ==
  [][\A p \in insts :
       (pc[p] = "ready" /\ nupdates'[p] = nupdates[p] + 1) =>
         /\ err'[p] # NoErr => Arrays(p)' = Arrays(p)
         /\ OneSplit(p)']_vars

C12_Witness ==
  \E p \in insts :
    /\ pc[p] = "ready" /\ nupdates[p] >= 1
    /\ Mode1(p)
    /\ ErrType(err[p]) = "AssertionError"
    /\ Val(_conf_splits[p]).gi_state = "suspended"

\* C13: after every update that returns, in each mode, the train arrays have
\* the same number of rows, the test arrays the same first two dimensions, and
\* train rows plus test configurations make N.
C13_ShapeConsistent ==
  \A p \in insts :
    Updated(p) =>
      /\ HasTrain(p) /\ HasTest(p)
      /\ Val(train_Y[p]).shape[1] = Val(train_X[p]).shape[1]
      /\ Val(train_meta[p]).shape[1] = Val(train_X[p]).shape[1]
      /\ Val(test_Y[p]).shape[1] = Val(test_X[p]).shape[1]
      /\ Val(test_meta[p]).shape[1] = Val(test_X[p]).shape[1]
      /\ Val(test_Y[p]).shape[2] = Val(test_X[p]).shape[2]
      /\ Val(test_meta[p]).shape[2] = Val(test_X[p]).shape[2]
      /\ Val(train_X[p]).shape[1] + Val(test_X[p]).shape[1] = Val(X_full[p]).shape[1]

C13_Witness ==
  \E p \in insts :
    /\ Updated(p) /\ nupdates[p] >= 2 /\ Mode2(p)
    /\ Val(train_X[p]).shape[1] >= 1
    /\ Val(test_X[p]).shape[1] >= 1

\* C14 (state part): in a constructed object the split generator is present
\* exactly when iterate_confs is true, the evaluation-subset generator exactly
\* when iterate_confs is false and iterate_evals true, never both.
C14_ModeState ==
  \A p \in insts :
    pc[p] = "ready" =>
      /\ ~IsNone(_conf_splits[p]) <=> args[p].iterate_confs
      /\ ~IsNone(_eval_splits[p]) <=> (~args[p].iterate_confs /\ args[p].iterate_evals)
      /\ IsNone(_conf_splits[p]) \/ IsNone(_eval_splits[p])

\* C14: the mode is fixed at construction: the state part holds throughout and
\* no step on a constructed object changes which generator is present.
C14_ModesExclusive ==
  /\ []C14_ModeState
  /\ [][\A p \in insts :
          pc[p] = "ready" =>
            /\ IsNone(_conf_splits'[p]) <=> IsNone(_conf_splits[p])
            /\ IsNone(_eval_splits'[p]) <=> IsNone(_eval_splits[p])]_vars

C14_Witness ==
  \E p \in insts :
    /\ args[p].iterate_confs /\ args[p].iterate_evals
    /\ Updated(p) /\ nupdates[p] >= 2
    /\ ~IsNone(_conf_splits[p]) /\ IsNone(_eval_splits[p])

\* C17: the full dataset of a constructed object is the one it was built
\* from, and no step changes it.
C17_FullDatasetFrozen ==
  /\ [](\A p \in insts : pc[p] = "ready" => full_of(Obj(p)) = args[p].data)
  /\ [][\A p \in insts :
          pc[p] = "ready" =>
            /\ X_full'[p] = X_full[p]
            /\ y_full'[p] = y_full[p]
            /\ meta_full'[p] = meta_full[p]]_vars

C17_Witness ==
  \E p \in insts :
    /\ Mode1(p) /\ Updated(p) /\ nupdates[p] >= 2
    /\ Val(train_X[p]).shape[1] >= 1

\* the slices y or meta of a direct call disagree with X on M or on i
Mismatch(A, B) == A.shape[1] # B.shape[1] \/ A.shape[2] # B.shape[2]

\* C16: over slices whose outputs or metadata disagree with the features on M
\* or on i, the first next() fails with an assertion naming the shape of the
\* features and the shape of the array that disagrees, no random number has
\* been drawn and no subset is ever yielded.
C16_MismatchAssertsFirst ==
  ~IsNone(evgen) =>
    LET v == Val(evgen)
        X == v.dataset[1]
        y == v.dataset[2]
        meta == v.dataset[3]
    IN ((Mismatch(X, y) \/ Mismatch(X, meta)) /\ v.nexts >= 1) =>
         /\ IsNone(v.out)
         /\ v.draws = 0
         /\ v.pos = v.seeded
         /\ v.nexts = 1 =>
              v.err = <<"AssertionError", X.shape,
                        IF Mismatch(X, y) THEN y.shape ELSE meta.shape>>
         /\ v.nexts > 1 => v.err = Raised("StopIteration")

C16_Witness ==
  /\ ~IsNone(evgen)
  /\ ~Mismatch(Val(evgen).dataset[1], Val(evgen).dataset[2])
  /\ Val(evgen).dataset[1].shape[1] # Val(evgen).dataset[3].shape[1]
  /\ Val(evgen).dataset[1].shape[2] = Val(evgen).dataset[3].shape[2]
  /\ Val(evgen).nexts >= 1
  /\ ErrType(Val(evgen).err) = "AssertionError"

\* the parameters the docstring promises for a constructor argument: the
\* defaults, with the given values for the accepted keys that were given
promised(given) == apply_overrides(ModuleDefaults, given)

\* C15: every legacy model sees the defaults overridden by exactly what it was
\* given (the plain defaults when given None), and the module's defaults stay
\* what the module defines.
C15_ModelsIndependent ==
  ~IsNone(DEFAULT_MLP_PARAMS) =>
    /\ \A m \in 1..Len(models) :
         deref(models[m].mlp_params) = promised(models[m].given)
    /\ Len(models) >= 1 => Val(DEFAULT_MLP_PARAMS) = ModuleDefaults

\* the place of the module m in the network nw, 0 when it is not in it
RECURSIVE index_of(_, _, _)
index_of(nw, m, j) ==
  IF j > Len(nw) THEN 0
  ELSE IF nw[j].module = m THEN j
  ELSE index_of(nw, m, j + 1)

\* the model has generated its network
Generated ==
  /\ ~IsNone(net)
  /\ ~IsNone(Val(net).network)

\* C18: a generated network over L hidden layers has L + 1 recorded
\* batch-normalization layers, each a module of the network, one name per
\* appended module (3 L + 2 modules), before every FC layer a
\* batch-normalization layer with that layer's input features, and the last
\* recorded batch-normalization layer immediately before Output.
C18_OneBatchNormPerLayer ==
  Generated =>
    LET L == Len(Val(net).hidden_layer_sizes)
        bn == Val(Val(net).batchnorm_layers)
        nw == Val(Val(net).network)
    IN /\ Len(bn) = L + 1
       /\ \A k \in 1..(L + 1) : index_of(nw, bn[k], 1) # 0
       /\ Len(nw) = 3 * L + 2
       /\ \A j \in 1..Len(nw) :
            nw[j].name[1] = "FC" =>
              /\ j > 1
              /\ nw[j - 1].module.kind = "BatchNorm1d"
              /\ nw[j - 1].module.num_features = nw[j].module.in_features
       /\ \A j \in 1..Len(nw) :
            nw[j].name = <<"Output">> => (j > 1 /\ nw[j - 1].module = bn[L + 1])

\* the hyperparameters of a history entry
params_of(res) == <<res[2], res[3], res[4], res[5]>>

\* C19: when fit returns, history holds the entry of every sampled
\* configuration in the order they were evaluated, and the final network was
\* trained once, with the hyperparameters of the earliest configuration whose
\* validation loss is the smallest.
C19_FitTrainsBest ==
  (~IsNone(fitrun) /\ Val(fitrun).pc = "returned") =>
    LET f == Val(fitrun)
        h == f.history
    IN /\ f.num_confs >= 1
       /\ Len(h) = f.num_confs
       /\ \A k \in 1..Len(h) : h[k] = result_of(f.losses[k], f.confs[k])
       /\ \E k \in 1..Len(h) :
            /\ \A j \in 1..Len(h) : f.losses[k] <= f.losses[j]
            /\ \A j \in 1..(k - 1) : f.losses[k] < f.losses[j]
            /\ f.train_network = <<params_of(h[k])>>
            /\ <<Val(f.batch_size), Val(f.weight_decay), Val(f.num_epochs),
                 Val(f.precision)>> = params_of(h[k])

C19_Witness ==
  /\ ~IsNone(fitrun)
  /\ Val(fitrun).pc = "returned"
  /\ Len(Val(fitrun).history) >= 3
  /\ Val(fitrun).losses[1] > Val(fitrun).losses[2]
  /\ Val(fitrun).losses[2] = Val(fitrun).losses[3]
  /\ Val(fitrun).confs[2] # Val(fitrun).confs[3]
  /\ Val(fitrun).train_network = <<params_of(Val(fitrun).history[2])>>

\* the prediction rec was computed in evaluation mode, right after exactly one
\* training-mode pass on one minibatch that followed a reset of every layer
ByTheProtocol(rec) ==
  /\ ~rec.training
  /\ \E ctr \in 0..Val(mcrun).outer, b \in 1..Val(mcrun).nbatches :
       /\ rec.log = <<"reset_running_stats", "train", <<"forward", <<ctr, b>>, TRUE>>, "eval">>
       /\ \A l \in DOMAIN rec.stats :
            rec.stats[l] = IF in_network(l, rec.stats) THEN <<<<ctr, b>>>> ELSE <<>>

\* C20 as stated: every recorded prediction is by the protocol, and the
\* network is in evaluation mode whenever a prediction was recorded.
C20_EvalWheneverRecorded ==
  ~IsNone(mcrun) =>
    /\ \A k \in 1..Len(Val(mcrun).Yt_hat) : ByTheProtocol(Val(mcrun).Yt_hat[k])
    /\ Len(Val(mcrun).Yt_hat) >= 1 => ~Val(mcrun).training

\* C20 (state part, amended): every recorded prediction is by the protocol,
\* and the network is in evaluation mode when _predict_mc returns with a
\* prediction recorded.
C20_Recorded ==
  ~IsNone(mcrun) =>
    /\ \A k \in 1..Len(Val(mcrun).Yt_hat) : ByTheProtocol(Val(mcrun).Yt_hat[k])
    /\ (Val(mcrun).pc = "returned" /\ Len(Val(mcrun).Yt_hat) >= 1) => ~Val(mcrun).training

\* C20 (amended): the state part holds throughout, and the network is in
\* evaluation mode at every step that records a prediction, and stays in it
\* until the next minibatch is taken.
C20_PredictionProtocol ==
  /\ []C20_Recorded
  /\ [][~IsNone(mcrun) =>
          /\ Len(Val(mcrun').Yt_hat) > Len(Val(mcrun).Yt_hat) =>
               (~Val(mcrun).training /\ ~Val(mcrun').training)
          /\ (Val(mcrun).pc = "for" /\ Len(Val(mcrun).Yt_hat) >= 1) =>
               ~Val(mcrun').training]_vars

C20_Witness ==
  /\ ~IsNone(mcrun)
  /\ Val(mcrun).pc = "returned"
  /\ Len(Val(mcrun).Yt_hat) >= 3
  /\ DOMAIN Val(mcrun).stats = 1..3
  /\ Val(mcrun).Yt_hat[1].stats # Val(mcrun).Yt_hat[2].stats
  /\ ~Val(mcrun).training

\* C21: right after construction mode 3 has the train and the test arrays,
\* mode 2 the test arrays only, mode 1 neither; once update has been called
\* the train and the test arrays are all there, in modes 1 and 2 as well.
C21_MaterializedByFirstUpdate ==
  \A p \in insts :
    pc[p] = "ready" =>
      /\ (nupdates[p] = 0 /\ Mode3(p)) => (HasTrain(p) /\ HasTest(p))
      /\ (nupdates[p] = 0 /\ Mode2(p)) =>
           /\ HasTest(p)
           /\ IsNone(train_X[p]) /\ IsNone(train_Y[p]) /\ IsNone(train_meta[p])
      /\ (nupdates[p] = 0 /\ Mode1(p)) =>
           /\ IsNone(train_X[p]) /\ IsNone(train_Y[p]) /\ IsNone(train_meta[p])
           /\ IsNone(test_X[p]) /\ IsNone(test_Y[p]) /\ IsNone(test_meta[p])
      /\ nupdates[p] >= 1 => (HasTrain(p) /\ HasTest(p))

\* C22: an object built by the constructor splits by size, never by
\* fraction, and whenever train_set_multiplier * Dx <= N the split it holds
\* (the one of construction in modes 2 and 3, the one of the last update in
\* mode 1) has exactly train_set_multiplier * Dx training configurations.
C22_ConstructorTrainSize ==
  \A p \in insts :
    LET multiplier == args[p].train_set_multiplier
        N == args[p].data[1].shape[1]
        Dx == args[p].data[1].shape[3]
        split_held == IF Mode1(p) THEN Updated(p) ELSE pc[p] = "ready"
    IN /\ (pc[p] = "ready" /\ Mode1(p)) => IsNone(Val(_conf_splits[p]).train_frac)
       /\ (multiplier * Dx <= N /\ split_held) =>
            /\ Size(train_ind[p]) = multiplier * Dx
            /\ Cardinality(Range(train_ind[p])) = multiplier * Dx
            /\ Size(test_ind[p]) = N - multiplier * Dx
            /\ Val(test_X[p]).shape[1] = N - multiplier * Dx
            /\ HasTrain(p) => Val(train_X[p]).shape[1] = multiplier * Dx

C22_Witness ==
  \E p \in insts :
    /\ Mode1(p) /\ Updated(p) /\ nupdates[p] >= 2
    /\ args[p].data[1].shape[3] >= 2
    /\ Size(train_ind[p]) = args[p].train_set_multiplier * args[p].data[1].shape[3]
    /\ Size(test_ind[p]) >= 1

\* C23: every candidate is trained with globalConfig.tblog off, the final
\* network with the flag back at its value from before the call, and when fit
\* has returned the flag has that value.
C23_TblogRestored ==
  ~IsNone(fitrun) =>
    LET f == Val(fitrun)
    IN /\ \A k \in 1..Len(f.tblog_seen) :
            /\ f.tblog_seen[k][1] = "candidate" => f.tblog_seen[k][2] = FALSE
            /\ f.tblog_seen[k][1] = "final" => f.tblog_seen[k][2] = f.tblog_before
       /\ f.pc = "returned" =>
            /\ f.globalConfig_tblog = f.tblog_before
            /\ Len(f.tblog_seen) = f.num_confs + 1
            /\ f.tblog_seen[Len(f.tblog_seen)][1] = "final"
            /\ \A k \in 1..f.num_confs : f.tblog_seen[k][1] = "candidate"

C23_Witness ==
  /\ ~IsNone(fitrun)
  /\ Val(fitrun).pc = "returned"
  /\ Val(fitrun).tblog_before = TRUE
  /\ Val(fitrun).globalConfig_tblog = TRUE
  /\ Len(Val(fitrun).history) >= 2
  /\ Val(fitrun).tblog_seen[1] = <<"candidate", FALSE>>

====
